---- MODULE Spec2Model ----
(***************************************************************************)
(* parse-fetch: content-type dispatch of a fetched response to a parse     *)
(* strategy, with a throwing entry point (parseFetch) and a result         *)
(* returning entry point (parseFetchSafe) on top of one parse routine.     *)
(*                                                                         *)
(* One input (a response and the options) is drawn in Init; each entry     *)
(* point is then run on its own instance of that response, step by step:   *)
(* the synchronous part up to the body read, the settling of the body      *)
(* read, and the continuation that applies the validator and settles the   *)
(* entry point's promise.                                                  *)
(***************************************************************************)
EXTENDS Integers, Sequences, FiniteSets, TLC

VARIABLES response, options, calls, io, fetchFn, decor, chains, pair

vars == <<response, options, calls, io, fetchFn, decor, chains, pair>>

---------------------------------------------------------------------------
(* JavaScript values.  Every value carries its type in field t, so that    *)
(* values of different types can be compared.                              *)

Undefined == [t |-> "undefined"]
Null == [t |-> "null"]
Str(s) == [t |-> "string", s |-> s]
Num(n) == [t |-> "number", n |-> n]
Bool(b) == [t |-> "boolean", b |-> b]
Arr(items) == [t |-> "array", items |-> items]
Obj(props) == [t |-> "object", props |-> props]
ArrayBuffer(id) == [t |-> "arraybuffer", id |-> id]
\* new Error(message)
Error(message) == [t |-> "error", message |-> message]

\* error instanceof Error ? error.message : 'Unknown error'
ErrorMessage(error) ==
  IF error.t = "error" THEN error.message ELSE "Unknown error"

\* String(v) as Array.prototype.join applies it to one element
ElementString(v) ==
  CASE v.t = "string" -> v.s
    [] v.t = "number" -> ToString(v.n)
    [] v.t = "boolean" -> (IF v.b THEN "true" ELSE "false")
    [] v.t \in {"undefined", "null"} -> ""
    [] v.t = "error" -> "Error: " \o v.message
    [] v.t = "arraybuffer" -> "[object ArrayBuffer]"
    [] OTHER -> "[object Object]"

RECURSIVE JoinFrom(_, _, _)
JoinFrom(items, i, sep) ==
  IF i > Len(items) THEN ""
  ELSE IF i = Len(items) THEN ElementString(items[i])
  ELSE ElementString(items[i]) \o sep \o JoinFrom(items, i + 1, sep)

\* errors.join(', ')
join(items, sep) == JoinFrom(items, 1, sep)

\* String.prototype.includes: type occurs in contentType, position by position
includes(contentType, type) ==
  \E i \in 1..(Len(contentType) - Len(type) + 1) :
    SubSeq(contentType, i, i + Len(type) - 1) = type

---------------------------------------------------------------------------
(* The content-type catalog.                                               *)

jsonTypes ==
  << "application/json", "application/ld+json", "application/vnd.api+json" >>

xmlTypes ==
  << "application/xml", "text/xml", "application/atom+xml",
     "application/rss+xml", "application/soap+xml" >>

textTypes ==
  << "text/plain", "text/html", "text/css", "text/csv",
     "text/tab-separated-values", "text/javascript",
     "application/javascript", "application/x-javascript",
     "application/x-sh", "application/x-shellscript",
     "application/xhtml+xml", "application/csv",
     "application/x-www-form-urlencoded", "multipart/form-data" >>

binaryTypes ==
  << "application/octet-stream", "application/pdf", "image/png",
     "image/jpeg", "image/gif", "image/svg+xml", "image/webp", "video/mp4",
     "video/webm", "video/avi", "audio/mp3", "audio/wav", "audio/ogg",
     "application/zip", "application/x-tar", "application/gzip",
     "application/x-gzip" >>

additionalTypes ==
  << "text/markdown", "application/yaml", "text/yaml",
     "application/xml-dtd", "text/vcard", "application/vcard+json" >>

---------------------------------------------------------------------------
(* The strategies: the family's list that canHandle tests, the one body    *)
(* read the strategy performs, and the description of its error message.   *)

additionalStrategy ==
  [name |-> "additional", types |-> additionalTypes, always |-> FALSE,
   read |-> "text", failed |-> "Failed to parse additional content type: "]

binaryStrategy ==
  [name |-> "binary", types |-> binaryTypes, always |-> FALSE,
   read |-> "arrayBuffer", failed |-> "Failed to parse binary data: "]

jsonStrategy ==
  [name |-> "json", types |-> jsonTypes, always |-> FALSE,
   read |-> "json", failed |-> "Failed to parse JSON: "]

textStrategy ==
  [name |-> "text", types |-> textTypes, always |-> FALSE,
   read |-> "text", failed |-> "Failed to parse text: "]

xmlStrategy ==
  [name |-> "xml", types |-> xmlTypes, always |-> FALSE,
   read |-> "text", failed |-> "Failed to parse XML/text: "]

defaultStrategy ==
  [name |-> "default", types |-> << >>, always |-> TRUE,
   read |-> "text", failed |-> "Failed to parse response: "]

\* strategy.canHandle(contentType): types.some(type => contentType.includes(type))
canHandle(strategy, contentType) ==
  strategy.always
    \/ \E i \in DOMAIN strategy.types : includes(contentType, strategy.types[i])

\* the registry with the XML strategy registered first
strategiesXmlFirst ==
  << xmlStrategy, additionalStrategy, binaryStrategy, jsonStrategy,
     textStrategy >>

\* the registry, in registration order
strategies ==
  << additionalStrategy, binaryStrategy, jsonStrategy, textStrategy,
     xmlStrategy >>

\* strategies.find(...) picking the last match instead of the first
getStrategyLastMatch(contentType) ==
  LET found == {i \in DOMAIN strategies : canHandle(strategies[i], contentType)}
  IN IF found = {} THEN defaultStrategy
     ELSE strategies[CHOOSE i \in found : \A j \in found : j <= i]

\* strategies.find(strategy => strategy.canHandle(contentType)) || defaultStrategy
getStrategy(contentType) ==
  LET found == {i \in DOMAIN strategies : canHandle(strategies[i], contentType)}
  IN IF found = {} THEN defaultStrategy
     ELSE strategies[CHOOSE i \in found : \A j \in found : i <= j]

---------------------------------------------------------------------------
(* Bounds of the inputs.                                                   *)

\* the bodies a response may carry are numbered 1..MaxBody
MaxBody == 2

Range(seq) == {seq[i] : i \in DOMAIN seq}

\* every member of the five families
CatalogTags ==
  Range(jsonTypes) \cup Range(xmlTypes) \cup Range(textTypes)
    \cup Range(binaryTypes) \cup Range(additionalTypes)

\* tags outside the catalog: empty, with parameters, other case, unknown
OtherTags ==
  { "", "application/json; charset=utf-8", "text/html; charset=utf-8",
    "APPLICATION/JSON", "application/unknown", "application/problem+json",
    "image/svg", "xml" }

AllTags == CatalogTags \cup OtherTags

\* the tags the full parse runs are made with
CoreTags ==
  { "", "application/json", "application/json; charset=utf-8", "text/plain",
    "application/xml", "application/xml-dtd", "image/png",
    "application/unknown" }

\* (ok, status, statusText) as a server sends them
Statuses ==
  { [ok |-> TRUE, status |-> 200, statusText |-> "OK"],
    [ok |-> FALSE, status |-> 404, statusText |-> "Not Found"],
    [ok |-> FALSE, status |-> 500, statusText |-> "Internal Server Error"] }

\* how the body read of a response ends: it resolves, it rejects with an
\* Error, it rejects with a value that is not an Error
Faults == {"none", "error", "nonError"}

Validators ==
  {"none", "identity", "transform", "flagged", "throws", "safeOk",
   "safeFail", "safeFailTwo"}

ResponsesWith(tags) ==
  { [ok |-> st.ok, status |-> st.status, statusText |-> st.statusText,
     hasBody |-> hb, contentType |-> h, fault |-> f, body |-> b] :
      st \in Statuses, hb \in BOOLEAN,
      h \in {Null} \cup {Str(tg) : tg \in tags},
      f \in Faults, b \in 1..MaxBody }

\* options with a reviver: none, one that adds one to every number, one
\* that drops the key 'message', one that raises
Revivers == {"none", "number", "drop", "throws"}

OptionsWithReviver(tags, validators, revivers) ==
  { [contentType |-> ct, validator |-> v, reviver |-> rv] :
      ct \in {Undefined} \cup {Str(tg) : tg \in tags}, v \in validators,
      rv \in revivers }

\* options without a reviver
OptionsWith(tags, validators) == OptionsWithReviver(tags, validators, {"none"})

---------------------------------------------------------------------------
(* The response as the parse routine sees it.                              *)

\* what response.json(), response.text(), response.arrayBuffer() resolve to
BodyValue(r, read) ==
  CASE read = "json" -> Obj([message |-> Str("Hello World"), id |-> Num(r.body)])
    [] read = "text" -> Str("Hello World " \o ToString(r.body))
    [] read = "arrayBuffer" -> ArrayBuffer(r.body)

Return(v) == [kind |-> "return", value |-> v]
Throw(e) == [kind |-> "throw", value |-> e]
Pending == [kind |-> "pending", value |-> Undefined]

\* the settled body read
ReadOutcome(r, read) ==
  CASE r.fault = "none" -> Return(BodyValue(r, read))
    [] r.fault = "error" -> Throw(Error("Invalid body"))
    [] r.fault = "nonError" -> Throw(Str("boom"))

\* truthiness of a value under ||
Truthy(v) ==
  CASE v.t \in {"undefined", "null"} -> FALSE
    [] v.t = "string" -> v.s /= ""
    [] v.t = "boolean" -> v.b
    [] v.t = "number" -> v.n /= 0
    [] OTHER -> TRUE

---------------------------------------------------------------------------
(* Results.                                                                *)

Success(data) == Obj([success |-> Bool(TRUE), data |-> data])
Failure(errors) == Obj([success |-> Bool(FALSE), errors |-> Arr(errors)])

\* typeof value === 'object' && value !== null && 'success' in value
\*   && typeof value.success === 'boolean'
isParseResult(value) ==
  /\ value.t = "object"
  /\ "success" \in DOMAIN value.props
  /\ value.props.success.t = "boolean"

\* every validation result wrapped as data, whatever it is
handleValidationResultAlwaysWrap(result) == Success(result)

handleValidationResult(result) ==
  IF isParseResult(result) THEN result ELSE Success(result)

\* value.name, undefined when the object has no such property
Prop(value, name) ==
  IF value.t = "object" /\ name \in DOMAIN value.props
  THEN value.props[name] ELSE Undefined

\* options.validator.validate(data) for each validator of the model: three
\* throwing validators that return a value (the data, a transform of it, a
\* payload that carries a boolean success flag of its own), one that
\* raises, and three safe validators
validate(validator, data) ==
  CASE validator = "identity" -> Return(data)
    [] validator = "transform" -> Return(Str("transformed"))
    [] validator = "flagged" ->
         Return(Obj([success |-> Bool(FALSE), message |-> Str("not found")]))
    [] validator = "throwsValidation" ->
         Throw(Error("Validation error: Required"))
    [] validator = "throws" -> Throw(Error("Invalid data structure"))
    [] validator = "safeOk" -> Return(Success(data))
    [] validator = "safeFail" -> Return(Failure(<< Str("bad") >>))
    [] validator = "safeFailTwo" ->
         Return(Failure(<< Str("bad"), Str("worse") >>))

---------------------------------------------------------------------------
(* The core parse routine and the two entry points.                        *)

Entries == {"parseFetch", "parseFetchSafe"}

\* `ParseFetch Error:HTTP ${response.status}: ${response.statusText}`
StatusError(r) ==
  Str("ParseFetch Error:HTTP " \o ToString(r.status) \o ": " \o r.statusText)

NoBodyError == Str("ParseFetch Error:Response has no body")

\* the header read first, the option only when the header is missing
headerFirstContentType(r, o) ==
  IF Truthy(r.contentType) THEN r.contentType.s
  ELSE IF Truthy(o.contentType) THEN o.contentType.s
  ELSE ""

\* options.contentType || response.headers.get('content-type') || ''
effectiveContentType(r, o) ==
  IF Truthy(o.contentType) THEN o.contentType.s
  ELSE IF Truthy(r.contentType) THEN r.contentType.s
  ELSE ""

\* whether evaluating the || chain calls response.headers.get
ReadsHeader(o) == ~Truthy(o.contentType)

\* the check of response.body made before the check of response.ok
checkResponseBodyFirst(r) ==
  IF ~r.hasBody THEN Failure(<< NoBodyError >>)
  ELSE IF ~r.ok THEN Failure(<< StatusError(r) >>)
  ELSE Undefined

\* the check of response.ok left out
checkResponseNoStatus(r) ==
  IF ~r.hasBody THEN Failure(<< NoBodyError >>)
  ELSE Undefined

\* the check of response.body left out
checkResponseNoBody(r) ==
  IF ~r.ok THEN Failure(<< StatusError(r) >>)
  ELSE Undefined

\* the two checks parse makes before it reads anything: the failure it
\* returns, or undefined when the response passes
checkResponse(r) ==
  IF ~r.ok THEN Failure(<< StatusError(r) >>)
  ELSE IF ~r.hasBody THEN Failure(<< NoBodyError >>)
  ELSE Undefined

StrategyNamed(name) ==
  CHOOSE st \in Range(strategies) \cup {defaultStrategy} : st.name = name

\* every strategy reading the body as text
strategyReadText(strategy) == "text"

\* the body read a strategy's parse performs
strategyRead(strategy) == strategy.read

\* the strategy passing the original error on
strategyParseNoWrap(strategy, outcome) == outcome

\* JSON text, as the sequence of its tokens
Tok(k, str, n) == [k |-> k, s |-> str, n |-> n]

Punct(k) == Tok(k, "", 0)

\* the keys of an object, in the order they are enumerated
RECURSIVE KeySeq(_)
KeySeq(keys) ==
  IF keys = {} THEN << >>
  ELSE LET k == CHOOSE x \in keys : TRUE
       IN << k >> \o KeySeq(keys \ {k})

\* JSON.stringify(value): strings, numbers, booleans, null and objects of
\* them; a property that is undefined or a function is left out
RECURSIVE JSONstringify(_), StringifyMembers(_, _)
JSONstringify(value) ==
  CASE value.t = "string" -> << Tok("string", value.s, 0) >>
    [] value.t = "number" -> << Tok("number", "", value.n) >>
    [] value.t = "boolean" -> << Punct(IF value.b THEN "true" ELSE "false") >>
    [] value.t = "null" -> << Punct("null") >>
    [] value.t = "object" ->
         << Punct("{") >>
           \o StringifyMembers(value.props, KeySeq(DOMAIN value.props))
           \o << Punct("}") >>
    [] OTHER -> << Punct("{"), Punct("}") >>

StringifyMembers(props, keys) ==
  IF keys = << >> THEN << >>
  ELSE LET rest == StringifyMembers(props, Tail(keys))
           member == props[Head(keys)]
       IN IF member.t \in {"undefined", "function"} THEN rest
          ELSE << Tok("string", Head(keys), 0), Punct(":") >>
                 \o JSONstringify(member)
                 \o (IF rest = << >> THEN << >> ELSE << Punct(",") >> \o rest)

\* an object without properties
NoProps == [k \in {} |-> Undefined]

\* the JSON value that starts at token i of text, and the position after it
RECURSIVE ParseValue(_, _), ParseMembers(_, _, _)
ParseValue(text, i) ==
  LET tok == text[i]
  IN CASE tok.k = "string" -> [value |-> Str(tok.s), next |-> i + 1]
       [] tok.k = "number" -> [value |-> Num(tok.n), next |-> i + 1]
       [] tok.k = "true" -> [value |-> Bool(TRUE), next |-> i + 1]
       [] tok.k = "false" -> [value |-> Bool(FALSE), next |-> i + 1]
       [] tok.k = "null" -> [value |-> Null, next |-> i + 1]
       [] tok.k = "{" ->
            IF text[i + 1].k = "}"
            THEN [value |-> Obj(NoProps), next |-> i + 2]
            ELSE ParseMembers(text, i + 1, NoProps)

\* the members of an object from the key at token i on, added to props
ParseMembers(text, i, props) ==
  LET member == ParseValue(text, i + 2)
      added == (text[i].s :> member.value) @@ props
  IN IF text[member.next].k = ","
     THEN ParseMembers(text, member.next + 1, added)
     ELSE [value |-> Obj(added), next |-> member.next + 1]

\* options.reviver(key, value) for each reviver of the model
reviver(kind, key, value) ==
  CASE kind = "number" ->
         IF value.t = "number" THEN Return(Num(value.n + 1)) ELSE Return(value)
    [] kind = "drop" ->
         IF key = "message" THEN Return(Undefined) ELSE Return(value)
    [] kind = "throws" -> Throw(Error("Bad reviver"))

\* the reviver pass of JSON.parse: the properties of an object first, a
\* property revived to undefined deleted, then the value itself
RECURSIVE Internalize(_, _, _)
Internalize(kind, key, value) ==
  IF value.t /= "object" THEN reviver(kind, key, value)
  ELSE LET revived == [k \in DOMAIN value.props |->
                         Internalize(kind, k, value.props[k])]
           raised == {k \in DOMAIN revived : revived[k].kind = "throw"}
           kept == {k \in DOMAIN revived : revived[k].value /= Undefined}
       IN IF raised /= {}
          THEN revived[CHOOSE k \in raised : TRUE]
          ELSE reviver(kind, key, Obj([k \in kept |-> revived[k].value]))

\* JSON.parse(text, reviver)
JSONparse(text, kind) == Internalize(kind, "", ParseValue(text, 1).value)

\* a raise of the reviver swallowed: the data returned as it was read
strategyReviveSwallow(strategy, o, outcome) ==
  IF outcome.kind = "return" /\ strategy.name = "json" /\ o.reviver /= "none"
  THEN LET revived == JSONparse(JSONstringify(outcome.value), o.reviver)
       IN IF revived.kind = "throw" THEN outcome ELSE revived
  ELSE outcome

\* the reviver applied by every strategy
strategyReviveAny(strategy, o, outcome) ==
  IF outcome.kind = "return" /\ o.reviver /= "none"
  THEN JSONparse(JSONstringify(outcome.value), o.reviver)
  ELSE outcome

\* the JSON strategy between its body read and its return: with a reviver
\* the data is re-stringified and re-parsed with it; the other strategies
\* return what they read
strategyRevive(strategy, o, outcome) ==
  IF outcome.kind = "return" /\ strategy.name = "json" /\ o.reviver /= "none"
  THEN JSONparse(JSONstringify(outcome.value), o.reviver)
  ELSE outcome

\* strategy.parse once the body read has settled: the value as it is, or
\* new Error(`Failed to ...: ${message}`)
strategyParse(strategy, outcome) ==
  IF outcome.kind = "return" THEN outcome
  ELSE Throw(Error(strategy.failed \o ErrorMessage(outcome.value)))

\* a raise of strategy.parse turned into a success without data
parseSettledRecover(outcome) ==
  IF outcome.kind = "return" THEN Success(outcome.value)
  ELSE Success(Undefined)

\* parse once strategy.parse has settled: { success: true, data } or the
\* catch clause's failure
parseSettled(outcome) ==
  IF outcome.kind = "return" THEN Success(outcome.value)
  ELSE Failure(<< Str("parseFetch failed: " \o ErrorMessage(outcome.value)) >>)

\* new Error(errors.join(', ')) thrown; reading join of a value that is not
\* an array raises a TypeError instead
ThrowJoined(errors) ==
  IF errors.t = "array" THEN Throw(Error(join(errors.items, ", ")))
  ELSE Throw(Error("Cannot read properties of undefined (reading 'join')"))

\* the whole parse result given to the validator
validatorArgumentResult(parsedResult) == parsedResult

\* the argument of options.validator.validate(parsedResult.data)
validatorArgument(parsedResult) == parsedResult.props.data

\* parseFetch after `await parse(...)`: what its promise settles with,
\* whether the validator was called, and with what
parseFetch(parsedResult, o) ==
  IF ~parsedResult.props.success.b
  THEN [outcome |-> ThrowJoined(parsedResult.props.errors),
        validated |-> FALSE, arg |-> Undefined]
  ELSE IF o.validator = "none"
  THEN [outcome |-> Return(parsedResult.props.data), validated |-> FALSE,
        arg |-> Undefined]
  ELSE LET arg == validatorArgument(parsedResult)
           validationResult == validate(o.validator, arg)
       IN IF validationResult.kind = "throw"
          THEN [outcome |-> validationResult, validated |-> TRUE, arg |-> arg]
          ELSE LET handledResult == handleValidationResult(validationResult.value)
               IN IF ~handledResult.props.success.b
                  THEN [outcome |-> ThrowJoined(Prop(handledResult, "errors")),
                        validated |-> TRUE, arg |-> arg]
                  ELSE [outcome |-> Return(Prop(handledResult, "data")),
                        validated |-> TRUE, arg |-> arg]

\* parseFetchSafe after `await parse(...)`
parseFetchSafe(parsedResult, o) ==
  IF ~parsedResult.props.success.b \/ o.validator = "none"
  THEN [outcome |-> Return(parsedResult), validated |-> FALSE, arg |-> Undefined]
  ELSE LET arg == validatorArgument(parsedResult)
           validationResult == validate(o.validator, arg)
       IN IF validationResult.kind = "throw"
          THEN [outcome |-> validationResult, validated |-> TRUE, arg |-> arg]
          ELSE [outcome |-> Return(handleValidationResult(validationResult.value)),
                validated |-> TRUE, arg |-> arg]

---------------------------------------------------------------------------
(* The state machine.                                                      *)

IdleCall ==
  [pc |-> "idle", contentType |-> "", strategy |-> "", read |-> Pending,
   parsedResult |-> Undefined, outcome |-> Pending]

NoIo ==
  [json |-> 0, text |-> 0, arrayBuffer |-> 0, headerGet |-> 0, validate |-> 0,
   validatedWith |-> << >>]

\* the decorators and the entry point each one attaches as parse
Decorators == {"withParse", "withParseSafe"}

EntryOf(by) == IF by = "withParse" THEN "parseFetch" ELSE "parseFetchSafe"

\* how many times .parse(options) is called on one decorated call
MaxChains == 2

\* a decorated call not made yet: the decorator, the arguments it will be
\* called with, and the ParseablePromise it returns
IdleDecor(by, input, init) ==
  [by |-> by, input |-> input, init |-> init, pc |-> "idle",
   pending |-> Pending]

\* a .parse(options) call not made yet: what it was called on, the run of
\* the attached entry point, and the operations that run performed
IdleChain == [on |-> "none", call |-> IdleCall, io |-> NoIo, unusable |-> FALSE]

\* two calls made on two responses of their own
Pair == {"first", "second"}

\* no such calls made
NoPair == [i \in {} |-> IdleCall]

InitWith(responses, opts) ==
  /\ response \in responses
  /\ options \in opts
  /\ calls = [c \in Entries |-> IdleCall]
  /\ io = [c \in Entries |-> NoIo]
  /\ fetchFn = [settle |-> "response", platform |-> FALSE, calls |-> << >>]
  /\ decor = IdleDecor("withParse", "/api/users", Undefined)
  /\ chains = [k \in 1..MaxChains |-> IdleChain]
  /\ pair = NoPair

\* the values of options.contentType the full parse runs are made with
OptionTags == {"", "application/json", "image/png"}

Init == InitWith(ResponsesWith(CoreTags), OptionsWith(OptionTags, Validators))

\* entry point c is called: parse runs to its first await.  A response that
\* fails a check makes parse return at once; otherwise the strategy is
\* selected and its body read is started.
Invoke(c) ==
  /\ calls[c].pc = "idle"
  /\ LET failure == checkResponse(response)
         contentType == effectiveContentType(response, options)
         strategy == getStrategy(contentType)
     IN IF failure /= Undefined
        THEN /\ calls' = [calls EXCEPT ![c].pc = "parsed",
                                       ![c].parsedResult = failure]
             /\ io' = io
        ELSE /\ calls' = [calls EXCEPT ![c].pc = "reading",
                                       ![c].contentType = contentType,
                                       ![c].strategy = strategy.name]
             /\ io' = [io EXCEPT
                  ![c][strategyRead(strategy)] = @ + 1,
                  ![c].headerGet = @ + (IF ReadsHeader(options) THEN 1 ELSE 0)]
  /\ UNCHANGED <<response, options, fetchFn, decor, chains, pair>>

\* the body read of call c settles: the strategy returns the value or
\* raises its error, and parse builds its result
ReadSettle(c) ==
  /\ calls[c].pc = "reading"
  /\ LET strategy == StrategyNamed(calls[c].strategy)
         read == ReadOutcome(response, strategyRead(strategy))
     IN calls' = [calls EXCEPT
          ![c].pc = "parsed",
          ![c].read = read,
          ![c].parsedResult =
             parseSettled(strategyParse(strategy,
                                        strategyRevive(strategy, options, read)))]
  /\ UNCHANGED <<response, options, io, fetchFn, decor, chains, pair>>

\* the entry point resumes after `await parse(...)`, applies the validator
\* and settles its promise
Finish(c) ==
  /\ calls[c].pc = "parsed"
  /\ LET done == IF c = "parseFetch"
                 THEN parseFetch(calls[c].parsedResult, options)
                 ELSE parseFetchSafe(calls[c].parsedResult, options)
     IN /\ calls' = [calls EXCEPT ![c].pc = "done", ![c].outcome = done.outcome]
        /\ io' = [io EXCEPT
             ![c].validate = @ + (IF done.validated THEN 1 ELSE 0),
             ![c].validatedWith = IF done.validated THEN Append(@, done.arg) ELSE @]
  /\ UNCHANGED <<response, options, fetchFn, decor, chains, pair>>

Next == \E c \in Entries : Invoke(c) \/ ReadSettle(c) \/ Finish(c)

Spec == Init /\ [][Next]_vars

\* the selector on every tag of the catalog and on tags outside it
InitSelect ==
  InitWith({r \in ResponsesWith(AllTags) :
              r.ok /\ r.hasBody /\ r.fault = "none" /\ r.body = 1},
           OptionsWith({"", "application/json"}, {"none"}))

SpecSelect == InitSelect /\ [][Next]_vars

\* the entry points run with a reviver in the options
ReviverTags == {"application/json", "text/plain", "image/png"}

ReviverValidators == {"none", "identity", "safeFail"}

InitReviver ==
  InitWith({r \in ResponsesWith(ReviverTags) : r.status /= 500},
           OptionsWithReviver({}, ReviverValidators, Revivers))

SpecReviver == InitReviver /\ [][Next]_vars

---------------------------------------------------------------------------
(* The decorators withParse and withParseSafe.                             *)

\* parse, called on response r with options o, run to its first await: the
\* call it leaves and the operations it has performed
parseBegin(r, o) ==
  LET failure == checkResponse(r)
      contentType == effectiveContentType(r, o)
      strategy == getStrategy(contentType)
  IN IF failure /= Undefined
     THEN [call |-> [IdleCall EXCEPT !.pc = "parsed", !.parsedResult = failure],
           io |-> NoIo]
     ELSE [call |-> [IdleCall EXCEPT !.pc = "reading",
                                     !.contentType = contentType,
                                     !.strategy = strategy.name],
           io |-> [NoIo EXCEPT
                     ![strategyRead(strategy)] = 1,
                     !.headerGet = IF ReadsHeader(o) THEN 1 ELSE 0]]

\* the fields and operations of a response
ResponseFields ==
  {"ok", "status", "statusText", "headers", "body", "json", "text",
   "arrayBuffer"}

\* a function value: operation name of object of
Fn(name, of) == [t |-> "function", name |-> name, of |-> of]

\* the value each field of response r reads as
ResponseProps(r) ==
  [f \in ResponseFields |->
     CASE f = "ok" -> Bool(r.ok)
       [] f = "status" -> Num(r.status)
       [] f = "statusText" -> Str(r.statusText)
       [] f = "headers" -> Obj([contentType |-> r.contentType])
       [] f = "body" -> IF r.hasBody THEN Obj([locked |-> Bool(FALSE)]) ELSE Null
       [] OTHER -> Fn(f, "response")]

\* the own enumerable properties of the response, which is what an object
\* spread copies: all of its fields when the response is a plain object, as
\* the ones the tests build; none when it is an instance of the platform's
\* Response class, whose fields are accessors and methods of the prototype
OwnEnumerable(r, platform) ==
  IF platform THEN [f \in {} |-> Undefined] ELSE ResponseProps(r)

\* { parse: (options) => parseFetch(response, options), ...response }: the
\* properties spread last take precedence
enhance(by, r, platform) ==
  OwnEnumerable(r, platform) @@ ("parse" :> Fn(EntryOf(by), "response"))

\* fetchFn not called
invokeFetchLater(f, input, init) == f

\* fetchFn(input) is called, without init
invokeFetchNoInit(f, input, init) ==
  [f EXCEPT !.calls = Append(@, [input |-> input, init |-> Undefined])]

\* fetchFn(input, init) is called
invokeFetch(f, input, init) ==
  [f EXCEPT !.calls = Append(@, [input |-> input, init |-> init])]

\* the error a failing fetchFn raises
FetchError(f) ==
  IF f.settle = "error" THEN Error("Network error") ELSE Str("offline")

\* rejection with a failure Result holding a network error record
rejectWithFailure(error) ==
  Failure(<< Obj([kind |-> Str("network"),
                  message |-> Str("parseFetch failed: " \o ErrorMessage(error))]) >>)

\* rejection with a new Error whose message has the prefix
rejectWithPrefixed(error) == Error("parseFetch failed: " \o ErrorMessage(error))

\* catch (error) { reject(error) }
rejectWith(error) == error

\* the decorated function is called: the executor of the ParseablePromise
\* runs at once, to its await of fetchFn(input, init)
Decorate ==
  /\ decor.pc = "idle"
  /\ fetchFn' = invokeFetch(fetchFn, decor.input, decor.init)
  /\ decor' = [decor EXCEPT !.pc = "fetching"]
  /\ UNCHANGED <<response, options, calls, io, chains, pair>>

\* the promise fetchFn returned settles, with a response or with an error
FetchSettle ==
  /\ decor.pc = "fetching"
  /\ decor' = [decor EXCEPT !.pc = "fetched"]
  /\ UNCHANGED <<response, options, calls, io, fetchFn, chains, pair>>

\* the executor resumed on a rejection as on a response
executorSettlesResolving(by, f, r) == Return(enhance(by, r, f.platform))

\* what the executor settles the ParseablePromise with once its await of
\* fetchFn is over: resolve(enhanced) or reject(error)
executorSettles(by, f, r) ==
  IF f.settle = "response" THEN Return(enhance(by, r, f.platform))
  ELSE Throw(rejectWith(FetchError(f)))

\* the executor resumes after `await fetchFn(input, init)`
ExecutorResume ==
  /\ decor.pc = "fetched"
  /\ decor' = [decor EXCEPT
       !.pc = "settled",
       !.pending = executorSettles(decor.by, fetchFn, response)]
  /\ UNCHANGED <<response, options, calls, io, fetchFn, chains, pair>>

\* Response.bodyUsed: a body read of the response has been called
bodyUsed(chs) ==
  \E k \in DOMAIN chs : chs[k].io.json + chs[k].io.text + chs[k].io.arrayBuffer > 0

\* the body read a parse has just called finds the body taken: an instance
\* of the platform's Response class gives its body out once, a plain
\* object with mocked readers every time
findsBodyUsed(f, chs, begun) ==
  f.platform /\ begun.call.pc = "reading" /\ bodyUsed(chs)

\* a body read that gives the body out again
chainReadAgain(r, unusable, read) == ReadOutcome(r, read)

\* what the body read of a chained parse settles with: a TypeError when the
\* body was taken before
chainRead(r, unusable, read) ==
  IF unusable THEN Throw(Error("Body is unusable"))
  ELSE ReadOutcome(r, read)

\* the .parse(options) calls of one decorated call are numbered in the
\* order they are made
NextChain(k) ==
  /\ chains[k].on = "none"
  /\ IF k = 1 THEN TRUE ELSE chains[k - 1].on /= "none"

\* ParseablePromise.parse(options): this.then(...) registers the callback
ParseOnPending(k) ==
  /\ decor.pc /= "idle"
  /\ NextChain(k)
  /\ chains' = [chains EXCEPT ![k].on = "pending"]
  /\ UNCHANGED <<response, options, calls, io, fetchFn, decor, pair>>

\* the parse of the enhanced response the caller has awaited is called
ParseOnEnhanced(k) ==
  /\ decor.pending.kind = "return"
  /\ NextChain(k)
  /\ LET begun == parseBegin(response, options)
     IN chains' = [chains EXCEPT
          ![k] = [on |-> "enhanced", call |-> begun.call, io |-> begun.io,
                  unusable |-> findsBodyUsed(fetchFn, chains, begun)]]
  /\ UNCHANGED <<response, options, calls, io, fetchFn, decor, pair>>

\* the callback of chain k run without waiting for the ParseablePromise
ThenCallbackEarly(k) ==
  /\ decor.pc /= "idle"
  /\ chains[k].on = "pending"
  /\ chains[k].call.pc = "idle"
  /\ LET begun == parseBegin(response, options)
     IN chains' = [chains EXCEPT
          ![k].call = begun.call,
          ![k].io = begun.io,
          ![k].unusable = findsBodyUsed(fetchFn, chains, begun)]
  /\ UNCHANGED <<response, options, calls, io, fetchFn, decor, pair>>

\* the ParseablePromise has settled and the callback of chain k runs: it
\* calls response.parse(options); a rejection passes down the chain
ThenCallback(k) ==
  /\ decor.pc = "settled"
  /\ chains[k].on = "pending"
  /\ chains[k].call.pc = "idle"
  /\ IF decor.pending.kind = "return"
     THEN LET begun == parseBegin(response, options)
          IN chains' = [chains EXCEPT
               ![k].call = begun.call,
               ![k].io = begun.io,
               ![k].unusable = findsBodyUsed(fetchFn, chains, begun)]
     ELSE chains' = [chains EXCEPT ![k].call.pc = "done",
                                   ![k].call.outcome = decor.pending]
  /\ UNCHANGED <<response, options, calls, io, fetchFn, decor, pair>>

\* the body read of chain k settles
ChainReadSettle(k) ==
  /\ chains[k].call.pc = "reading"
  /\ LET strategy == StrategyNamed(chains[k].call.strategy)
         read == chainRead(response, chains[k].unusable, strategyRead(strategy))
     IN chains' = [chains EXCEPT
          ![k].call.pc = "parsed",
          ![k].call.read = read,
          ![k].call.parsedResult =
             parseSettled(strategyParse(strategy,
                                        strategyRevive(strategy, options, read)))]
  /\ UNCHANGED <<response, options, calls, io, fetchFn, decor, pair>>

\* the attached entry point of chain k resumes after `await parse(...)`
ChainFinish(k) ==
  /\ chains[k].call.pc = "parsed"
  /\ LET done == IF EntryOf(decor.by) = "parseFetch"
                 THEN parseFetch(chains[k].call.parsedResult, options)
                 ELSE parseFetchSafe(chains[k].call.parsedResult, options)
     IN chains' = [chains EXCEPT
          ![k].call.pc = "done",
          ![k].call.outcome = done.outcome,
          ![k].io.validate = @ + (IF done.validated THEN 1 ELSE 0),
          ![k].io.validatedWith = IF done.validated THEN Append(@, done.arg) ELSE @]
  /\ UNCHANGED <<response, options, calls, io, fetchFn, decor, pair>>

\* the calls the decorators are run with
DecorTags == {"application/json", "image/png"}

DecorValidators == {"none", "throws", "safeFail"}

DecorArgs ==
  {[input |-> "/api/users", init |-> Undefined],
   [input |-> "/api/data", init |-> Obj([method |-> Str("POST")])]}

InitDecor ==
  /\ response \in {r \in ResponsesWith(DecorTags) :
                     r.status /= 500 /\ r.fault /= "nonError" /\ r.body = 1}
  /\ options \in OptionsWith({}, DecorValidators)
  /\ calls = [c \in Entries |-> IdleCall]
  /\ io = [c \in Entries |-> NoIo]
  /\ fetchFn \in {f \in [settle : {"response", "error", "nonError"},
                         platform : BOOLEAN, calls : {<< >>}] :
                    f.platform => f.settle = "response"}
  /\ decor \in {IdleDecor(by, a.input, a.init) : by \in Decorators, a \in DecorArgs}
  /\ chains = [k \in 1..MaxChains |-> IdleChain]
  /\ pair = NoPair

\* one decorated call with its .parse(options) calls, next to a call of the
\* attached entry point made on the response directly
NextDecor ==
  \/ Decorate
  \/ FetchSettle
  \/ ExecutorResume
  \/ \E k \in 1..MaxChains :
       \/ ParseOnPending(k)
       \/ ParseOnEnhanced(k)
       \/ ThenCallback(k)
       \/ ChainReadSettle(k)
       \/ ChainFinish(k)
  \/ \E c \in Entries :
       /\ c = EntryOf(decor.by)
       /\ Invoke(c) \/ ReadSettle(c) \/ Finish(c)

SpecDecor == InitDecor /\ [][NextDecor]_vars

\* the continuation of the executor is a job the event loop runs once the
\* promise it awaits has settled
SpecDecorFair == SpecDecor /\ WF_vars(ExecutorResume)

---------------------------------------------------------------------------
(* Two calls on two responses.                                             *)

\* the other call of the pair
Other(i) == IF i = "first" THEN "second" ELSE "first"

\* call i is made: parse runs to its first await on the call's own response
PairInvoke(i) ==
  /\ pair[i].call.pc = "idle"
  /\ LET begun == parseBegin(pair[i].response, pair[i].options)
     IN pair' = [pair EXCEPT ![i].call = begun.call, ![i].io = begun.io]
  /\ UNCHANGED <<response, options, calls, io, fetchFn, decor, chains>>

\* the body read of call i settled with the other response's body
PairReadSettleShared(i) ==
  /\ pair[i].call.pc = "reading"
  /\ LET strategy == StrategyNamed(pair[i].call.strategy)
         read == ReadOutcome(pair[Other(i)].response, strategyRead(strategy))
     IN pair' = [pair EXCEPT
          ![i].call.pc = "parsed",
          ![i].call.read = read,
          ![i].call.parsedResult =
             parseSettled(strategyParse(strategy,
                            strategyRevive(strategy, pair[i].options, read)))]
  /\ UNCHANGED <<response, options, calls, io, fetchFn, decor, chains>>

\* the body read of call i settles
PairReadSettle(i) ==
  /\ pair[i].call.pc = "reading"
  /\ LET strategy == StrategyNamed(pair[i].call.strategy)
         read == ReadOutcome(pair[i].response, strategyRead(strategy))
     IN pair' = [pair EXCEPT
          ![i].call.pc = "parsed",
          ![i].call.read = read,
          ![i].call.parsedResult =
             parseSettled(strategyParse(strategy,
                            strategyRevive(strategy, pair[i].options, read)))]
  /\ UNCHANGED <<response, options, calls, io, fetchFn, decor, chains>>

\* the entry point of call i resumes after `await parse(...)`
PairFinish(i) ==
  /\ pair[i].call.pc = "parsed"
  /\ LET done == IF pair[i].entry = "parseFetch"
                 THEN parseFetch(pair[i].call.parsedResult, pair[i].options)
                 ELSE parseFetchSafe(pair[i].call.parsedResult, pair[i].options)
     IN pair' = [pair EXCEPT
          ![i].call.pc = "done",
          ![i].call.outcome = done.outcome,
          ![i].io.validate = @ + (IF done.validated THEN 1 ELSE 0),
          ![i].io.validatedWith = IF done.validated THEN Append(@, done.arg) ELSE @]
  /\ UNCHANGED <<response, options, calls, io, fetchFn, decor, chains>>

\* the responses and options of the paired calls
PairTags == {"application/json", "text/plain"}

PairValidators == {"none", "safeFail"}

PairResponses ==
  {r \in ResponsesWith(PairTags) :
     r.status /= 500 /\ r.hasBody /\ r.contentType /= Null /\ r.fault /= "nonError"}

PairCalls ==
  {[entry |-> en, response |-> r, options |-> o, call |-> IdleCall, io |-> NoIo] :
     en \in Entries, r \in PairResponses, o \in OptionsWith({}, PairValidators)}

InitPair ==
  /\ response \in {r \in PairResponses : r.ok /\ r.fault = "none" /\ r.body = 1
                                          /\ r.contentType = Str("application/json")}
  /\ options \in OptionsWith({}, {"none"})
  /\ calls = [c \in Entries |-> IdleCall]
  /\ io = [c \in Entries |-> NoIo]
  /\ fetchFn = [settle |-> "response", platform |-> FALSE, calls |-> << >>]
  /\ decor = IdleDecor("withParse", "/api/users", Undefined)
  /\ chains = [k \in 1..MaxChains |-> IdleChain]
  /\ pair \in [Pair -> PairCalls]

NextPair == \E i \in Pair : PairInvoke(i) \/ PairReadSettle(i) \/ PairFinish(i)

SpecPair == InitPair /\ [][NextPair]_vars

---------------------------------------------------------------------------
(* The legacy entry point parseFetchResponse.                              *)

\* the catch clause: an Error whose message includes 'Validation error' is
\* re-thrown as it is, anything else is wrapped
legacyCatch(error) ==
  IF error.t = "error" /\ includes(error.message, "Validation error")
  THEN Throw(error)
  ELSE Throw(Error("parseFetchResponse failed: " \o ErrorMessage(error)))

\* the error the checks at the head of the try block throw, Undefined when
\* the response passes them
legacyCheck(r) ==
  IF ~r.ok
  THEN Error("HTTP " \o ToString(r.status) \o ": " \o r.statusText)
  ELSE IF ~r.hasBody THEN Error("Response has no body")
  ELSE Undefined

\* parseFetchResponse is called and runs to its first await
LegacyInvoke ==
  /\ calls["parseFetchResponse"].pc = "idle"
  /\ LET thrown == legacyCheck(response)
         contentType == effectiveContentType(response, options)
         strategy == getStrategy(contentType)
     IN IF thrown /= Undefined
        THEN /\ calls' = [calls EXCEPT
                  !["parseFetchResponse"].pc = "done",
                  !["parseFetchResponse"].outcome = legacyCatch(thrown)]
             /\ io' = io
        ELSE /\ calls' = [calls EXCEPT
                  !["parseFetchResponse"].pc = "reading",
                  !["parseFetchResponse"].contentType = contentType,
                  !["parseFetchResponse"].strategy = strategy.name]
             /\ io' = [io EXCEPT
                  !["parseFetchResponse"][strategyRead(strategy)] = @ + 1,
                  !["parseFetchResponse"].headerGet =
                     @ + (IF ReadsHeader(options) THEN 1 ELSE 0)]
  /\ UNCHANGED <<response, options, fetchFn, decor, chains, pair>>

\* strategy.parse settles: the validator, if any, is applied to the parsed
\* data and its return value returned as it is; whatever is raised on the
\* way goes through the catch clause
LegacySettle ==
  /\ calls["parseFetchResponse"].pc = "reading"
  /\ LET strategy == StrategyNamed(calls["parseFetchResponse"].strategy)
         read == ReadOutcome(response, strategyRead(strategy))
         parsedData == strategyParse(strategy, strategyRevive(strategy, options, read))
         validated == parsedData.kind = "return" /\ options.validator /= "none"
         returned == IF validated THEN validate(options.validator, parsedData.value)
                     ELSE parsedData
     IN /\ calls' = [calls EXCEPT
             !["parseFetchResponse"].pc = "done",
             !["parseFetchResponse"].read = read,
             !["parseFetchResponse"].outcome =
                IF returned.kind = "return" THEN returned
                ELSE legacyCatch(returned.value)]
        /\ io' = [io EXCEPT
             !["parseFetchResponse"].validate = @ + (IF validated THEN 1 ELSE 0),
             !["parseFetchResponse"].validatedWith =
                IF validated THEN Append(@, parsedData.value) ELSE @]
  /\ UNCHANGED <<response, options, fetchFn, decor, chains, pair>>

\* the responses the legacy entry point is run on: those of the full runs,
\* and the same with a status line whose text is 'Validation error'
LegacyResponses ==
  ResponsesWith(CoreTags) \cup
    {[r EXCEPT !.ok = FALSE, !.status = 422, !.statusText = "Validation error"] :
       r \in ResponsesWith(CoreTags)}

LegacyValidators ==
  {"none", "identity", "transform", "throws", "throwsValidation", "safeFail"}

InitLegacy ==
  /\ response \in LegacyResponses
  /\ options \in OptionsWith(OptionTags, LegacyValidators)
  /\ calls = [c \in {"parseFetchResponse"} |-> IdleCall]
  /\ io = [c \in {"parseFetchResponse"} |-> NoIo]
  /\ fetchFn = [settle |-> "response", platform |-> FALSE, calls |-> << >>]
  /\ decor = IdleDecor("withParse", "/api/users", Undefined)
  /\ chains = [k \in 1..MaxChains |-> IdleChain]
  /\ pair = NoPair

NextLegacy == LegacyInvoke \/ LegacySettle

SpecLegacy == InitLegacy /\ [][NextLegacy]_vars

---------------------------------------------------------------------------
(* Properties.                                                             *)

\* call c has selected its strategy
Selected(c) == calls[c].strategy /= ""

\* member occurs in tag: tag is some prefix, then member, then some suffix
OccursIn(member, tag) ==
  \E a \in 0..Len(tag) :
    /\ a + Len(member) <= Len(tag)
    /\ tag = SubSeq(tag, 1, a) \o member
               \o SubSeq(tag, a + Len(member) + 1, Len(tag))

\* registry position i has a family member occurring in tag
FamilyMatches(i, tag) ==
  \E k \in DOMAIN strategies[i].types : OccursIn(strategies[i].types[k], tag)

\* C1: for every content-type tag, the empty one included, getStrategy
\* returns the first strategy in registry order one of whose family members
\* is a case-sensitive substring of the tag, and the Default strategy when
\* no family matches; 'application/json; charset=utf-8' resolves to JSON,
\* and a tag in another case resolves to Default.
C1_FirstMatchingStrategy ==
  \A c \in Entries :
    Selected(c) =>
      LET tag == calls[c].contentType
          matching == {i \in DOMAIN strategies : FamilyMatches(i, tag)}
      IN /\ matching = {} => calls[c].strategy = "default"
         /\ matching /= {} =>
              \E i \in matching :
                /\ \A j \in matching : i <= j
                /\ calls[c].strategy = strategies[i].name
         /\ tag = "application/json; charset=utf-8" => calls[c].strategy = "json"
         /\ tag \in {"", "APPLICATION/JSON"} => calls[c].strategy = "default"

\* a tag that two families match ('application/xml' occurs in
\* 'application/xml-dtd') went to the family registered first
C1_Witness ==
  \E c \in Entries :
    /\ calls[c].pc = "done"
    /\ calls[c].contentType = "application/xml-dtd"
    /\ Cardinality({i \in DOMAIN strategies :
                      FamilyMatches(i, calls[c].contentType)}) = 2
    /\ calls[c].strategy = "additional"

\* the family that lists tag T
Owner(T) ==
  CASE T \in Range(jsonTypes) -> "json"
    [] T \in Range(xmlTypes) -> "xml"
    [] T \in Range(textTypes) -> "text"
    [] T \in Range(binaryTypes) -> "binary"
    [] T \in Range(additionalTypes) -> "additional"

\* C2 as stated: for every tag T of the catalog the selected strategy is the
\* one owning the family that lists T, and for any tag that no family lists
\* it is the Default strategy.
C2_Original ==
  \A c \in Entries :
    Selected(c) =>
      IF calls[c].contentType \in CatalogTags
      THEN calls[c].strategy = Owner(calls[c].contentType)
      ELSE calls[c].strategy = "default"

\* C2 amended: for every tag T of the catalog the selected strategy is the
\* one owning the family that lists T, and for any tag in which no family
\* member occurs it is the Default strategy.
C2_CatalogOwner ==
  \A c \in Entries :
    Selected(c) =>
      /\ calls[c].contentType \in CatalogTags =>
           calls[c].strategy = Owner(calls[c].contentType)
      /\ (\A T \in CatalogTags : ~OccursIn(T, calls[c].contentType)) =>
           calls[c].strategy = "default"

\* a catalog tag in which a member of another family occurs, resolved to
\* its own family
C2_Witness ==
  \E c \in Entries :
    /\ calls[c].pc = "done"
    /\ calls[c].contentType = "application/xml-dtd"
    /\ calls[c].contentType \in Range(additionalTypes)
    /\ OccursIn("application/xml", calls[c].contentType)
    /\ calls[c].strategy = Owner(calls[c].contentType)

\* the one body read of each family
ModeOf(name) ==
  CASE name = "json" -> "json"
    [] name = "binary" -> "arrayBuffer"
    [] name \in {"xml", "text", "additional", "default"} -> "text"

\* the reads call c made on its response, per operation
ReadsOf(c) == [m \in {"json", "text", "arrayBuffer"} |-> io[c][m]]

OnlyRead(mode) == [m \in {"json", "text", "arrayBuffer"} |-> IF m = mode THEN 1 ELSE 0]

NoReads == [m \in {"json", "text", "arrayBuffer"} |-> 0]

\* C3: each strategy uses exactly one body read (JSON: json(); XML, Text,
\* Additional, Default: text(); Binary: arrayBuffer()) and returns its value
\* unmodified: for an ok response with a body and no validator, the parse
\* result is exactly what that one read produced.
C3_OneReadUnmodified ==
  \A c \in Entries :
    /\ Selected(c) => ReadsOf(c) = OnlyRead(ModeOf(calls[c].strategy))
    /\ (calls[c].pc = "done" /\ response.ok /\ response.hasBody
          /\ response.fault = "none" /\ options.validator = "none") =>
         LET produced == BodyValue(response, ModeOf(calls[c].strategy))
         IN /\ calls[c].read = Return(produced)
            /\ c = "parseFetch" => calls[c].outcome = Return(produced)
            /\ c = "parseFetchSafe" => calls[c].outcome = Return(Success(produced))

\* an image/png response parsed to the byte buffer arrayBuffer() produced
C3_Witness ==
  /\ response.contentType = Str("image/png")
  /\ options = [contentType |-> Undefined, validator |-> "none", reviver |-> "none"]
  /\ calls["parseFetch"].pc = "done"
  /\ calls["parseFetch"].strategy = "binary"
  /\ io["parseFetch"].arrayBuffer = 1
  /\ calls["parseFetch"].outcome = Return(ArrayBuffer(response.body))

\* C4 as stated: the content type used for selection is options.contentType
\* whenever it is present, otherwise the response's content-type header,
\* otherwise the empty string (which selects Default).
C4_Original ==
  \A c \in Entries :
    Selected(c) =>
      /\ calls[c].contentType =
           IF options.contentType /= Undefined THEN options.contentType.s
           ELSE IF response.contentType /= Null THEN response.contentType.s
           ELSE ""
      /\ calls[c].contentType = "" => calls[c].strategy = "default"

\* C4 amended: the content type used for selection is options.contentType
\* whenever it is present and not the empty string, otherwise the
\* response's content-type header, otherwise the empty string (which
\* selects Default); the header never overrides a non-empty
\* options.contentType.
C4_ContentTypePrecedence ==
  \A c \in Entries :
    Selected(c) =>
      /\ calls[c].contentType =
           IF options.contentType /= Undefined /\ options.contentType.s /= ""
           THEN options.contentType.s
           ELSE IF response.contentType /= Null THEN response.contentType.s
           ELSE ""
      /\ calls[c].contentType = "" => calls[c].strategy = "default"

\* an option and a header of different families: the option decided
C4_Witness ==
  /\ options.contentType = Str("image/png")
  /\ response.contentType = Str("application/json")
  /\ calls["parseFetch"].pc = "done"
  /\ calls["parseFetch"].contentType = "image/png"
  /\ calls["parseFetch"].strategy = "binary"

\* C5: when response.ok is false, the safe entry point returns a failure
\* Result whose errors list has exactly one entry, an http-kind record with
\* kind 'http', the numeric status, the statusText and the message
\* 'ParseFetch Error:HTTP <status>: <statusText>'; the throwing entry point
\* raises with a message containing 'HTTP <status>: <statusText>'.
C5_HttpErrorRecord ==
  LET http == "HTTP " \o ToString(response.status) \o ": " \o response.statusText
      safe == calls["parseFetchSafe"]
      throwing == calls["parseFetch"]
  IN /\ (~response.ok /\ safe.pc = "done") =>
          /\ safe.outcome.kind = "return"
          /\ safe.outcome.value = Failure(<<
               Obj([kind |-> Str("http"), status |-> Num(response.status),
                    statusText |-> Str(response.statusText),
                    message |-> Str("ParseFetch Error:" \o http)]) >>)
     /\ (~response.ok /\ throwing.pc = "done") =>
          /\ throwing.outcome.kind = "throw"
          /\ throwing.outcome.value.t = "error"
          /\ OccursIn(http, throwing.outcome.value.message)

\* C6: when response.ok is true and response.body is absent, both entry
\* points fail without reading the body: the safe one returns a failure
\* Result with exactly one error, 'ParseFetch Error:Response has no body',
\* and the throwing one raises with that message.
C6_NoBody ==
  \A c \in Entries :
    (response.ok /\ ~response.hasBody) =>
      /\ ReadsOf(c) = NoReads
      /\ ~Selected(c)
      /\ calls[c].pc = "done" =>
           IF c = "parseFetchSafe"
           THEN calls[c].outcome =
                  Return(Failure(<< Str("ParseFetch Error:Response has no body") >>))
           ELSE calls[c].outcome =
                  Throw(Error("ParseFetch Error:Response has no body"))

\* both entry points have ended on an ok response without a body
C6_Witness ==
  /\ response.ok /\ ~response.hasBody
  /\ \A c \in Entries : calls[c].pc = "done" /\ calls[c].outcome.kind /= "pending"
  /\ calls["parseFetch"].outcome.kind = "throw"

\* the error description of each family
FailedTo(name) ==
  CASE name = "json" -> "Failed to parse JSON"
    [] name = "xml" -> "Failed to parse XML/text"
    [] name = "text" -> "Failed to parse text"
    [] name = "binary" -> "Failed to parse binary data"
    [] name = "additional" -> "Failed to parse additional content type"
    [] name = "default" -> "Failed to parse response"

\* C7: when the selected strategy's body read raises, the strategy raises
\* 'Failed to <family description>: <original message>' ('Unknown error'
\* for a raised value that is not an Error), and the parse routine turns it
\* into a failure Result with exactly one error, 'parseFetch failed: '
\* followed by that message.
C7_DecodeFailure ==
  \A c \in Entries :
    (calls[c].pc \in {"parsed", "done"} /\ calls[c].read.kind = "throw") =>
      LET raised == calls[c].read.value
          detail == IF raised.t = "error" THEN raised.message ELSE "Unknown error"
          message == "parseFetch failed: " \o FailedTo(calls[c].strategy)
                       \o ": " \o detail
      IN /\ calls[c].parsedResult = Failure(<< Str(message) >>)
         /\ (calls[c].pc = "done" /\ c = "parseFetchSafe") =>
              calls[c].outcome = Return(Failure(<< Str(message) >>))
         /\ (calls[c].pc = "done" /\ c = "parseFetch") =>
              calls[c].outcome = Throw(Error(message))

\* a JSON body read that rejected with a value that is not an Error
C7_Witness ==
  /\ response.fault = "nonError"
  /\ calls["parseFetchSafe"].pc = "done"
  /\ calls["parseFetchSafe"].strategy = "json"
  /\ calls["parseFetchSafe"].read = Throw(Str("boom"))
  /\ calls["parseFetchSafe"].outcome =
       Return(Failure(<< Str("parseFetch failed: Failed to parse JSON: Unknown error") >>))

\* v is { success: true, data: ... }
IsSuccessResult(v) == isParseResult(v) /\ v.props.success.b

\* v is { success: false, errors: [...] }
IsFailureResult(v) ==
  /\ isParseResult(v) /\ ~v.props.success.b
  /\ Prop(v, "errors").t = "array"

BothDone == \A c \in Entries : calls[c].pc = "done"

\* C8: the two entry points agree on every input: parseFetch returns d
\* exactly when parseFetchSafe returns {success: true, data: d}, and
\* parseFetch raises an error whose message is the errors joined by ', '
\* exactly when parseFetchSafe returns {success: false, errors}.
C8_EntryPointsAgree ==
  LET throwing == calls["parseFetch"].outcome
      safe == calls["parseFetchSafe"].outcome
  IN BothDone =>
       /\ throwing.kind = "return" <=>
            (safe.kind = "return" /\ IsSuccessResult(safe.value))
       /\ throwing.kind = "return" =>
            throwing.value = Prop(safe.value, "data")
       /\ throwing.kind = "throw" <=>
            (safe.kind = "return" /\ IsFailureResult(safe.value))
       /\ throwing.kind = "throw" =>
            throwing.value = Error(join(Prop(safe.value, "errors").items, ", "))

\* the decode of the input succeeds
DecodeSucceeds == response.ok /\ response.hasBody /\ response.fault = "none"

\* the validator of the input rejects the decoded value
ValidatorRejects == options.validator \in {"throws", "safeFail", "safeFailTwo"}

\* C9: on every failure path (non-ok status, missing body, decode
\* exception, validator rejection) the safe entry point returns
\* {success: false, errors} with at least one entry, and the throwing entry
\* point raises with a message equal to those errors joined by ', '.
C9_FailurePaths ==
  LET throwing == calls["parseFetch"].outcome
      safe == calls["parseFetchSafe"].outcome
  IN (BothDone /\ (~DecodeSucceeds \/ ValidatorRejects)) =>
       /\ safe.kind = "return"
       /\ IsFailureResult(safe.value)
       /\ Len(Prop(safe.value, "errors").items) >= 1
       /\ throwing = Throw(Error(join(Prop(safe.value, "errors").items, ", ")))

\* C10: when a throwing validator raises on a successfully decoded value,
\* the safe entry point does not raise: it returns a failure Result with
\* one parse-kind error whose message is 'parseFetch failed: <validator
\* message>'; the throwing entry point raises with that same message.
C10_ThrowingValidatorInSafe ==
  LET throwing == calls["parseFetch"]
      safe == calls["parseFetchSafe"]
      raised == validate("throws", Undefined).value.message
      message == "parseFetch failed: " \o raised
  IN (DecodeSucceeds /\ options.validator = "throws") =>
       /\ safe.pc = "done" =>
            /\ safe.outcome.kind = "return"
            /\ safe.outcome.value =
                 Failure(<< Obj([kind |-> Str("parse"), message |-> Str(message)]) >>)
       /\ throwing.pc = "done" => throwing.outcome = Throw(Error(message))

\* the value the decode of the input produces for call c
Decoded(c) == BodyValue(response, ModeOf(calls[c].strategy))

\* C11: when a safe validator is supplied and the decode succeeds, the safe
\* entry point returns exactly the Result the validator returned; the
\* throwing entry point returns that Result's data on success and raises
\* with its errors joined by ', ' on failure ('bad' for ['bad']).
C11_SafeValidator ==
  \A c \in Entries :
    (calls[c].pc = "done" /\ DecodeSucceeds
       /\ options.validator \in {"safeOk", "safeFail", "safeFailTwo"}) =>
      LET result == validate(options.validator, Decoded(c)).value
      IN /\ c = "parseFetchSafe" => calls[c].outcome = Return(result)
         /\ (c = "parseFetch" /\ result.props.success.b) =>
              calls[c].outcome = Return(result.props.data)
         /\ (c = "parseFetch" /\ ~result.props.success.b) =>
              calls[c].outcome = Throw(Error(join(result.props.errors.items, ", ")))
         /\ (c = "parseFetch" /\ result = Failure(<< Str("bad") >>)) =>
              calls[c].outcome = Throw(Error("bad"))
         /\ (c = "parseFetch" /\ options.validator = "safeFailTwo") =>
              calls[c].outcome = Throw(Error("bad, worse"))

\* a safe validator's failure with two errors passed through both entry
\* points
C11_Witness ==
  /\ options.validator = "safeFailTwo"
  /\ BothDone
  /\ calls["parseFetchSafe"].outcome =
       Return(Failure(<< Str("bad"), Str("worse") >>))
  /\ calls["parseFetch"].outcome = Throw(Error("bad, worse"))

\* C12: for every value v, whatever its shape, that a throwing validator
\* returns without raising on a successfully decoded body, the safe entry
\* point returns {success: true, data: v} and the throwing entry point
\* returns v.
C12_ThrowingValidatorValue ==
  \A c \in Entries :
    (calls[c].pc = "done" /\ DecodeSucceeds
       /\ options.validator \in {"identity", "transform", "flagged"}) =>
      LET v == validate(options.validator, Decoded(c)).value
      IN IF c = "parseFetchSafe"
         THEN calls[c].outcome = Return(Success(v))
         ELSE calls[c].outcome = Return(v)

\* C20: when response.ok is false, no body read is ever invoked on the
\* response, the content-type header is not consulted, and the validator
\* is never invoked, for both entry points.
C20_NotOkTouchesNothing ==
  \A c \in Entries :
    ~response.ok =>
      /\ io[c] = NoIo
      /\ ~Selected(c)
      /\ calls[c].read = Pending

\* both entry points have ended on a response that is not ok, with a
\* validator in the options and a content-type header on the response
C20_Witness ==
  /\ ~response.ok /\ response.hasBody
  /\ response.contentType = Str("application/json")
  /\ options = [contentType |-> Undefined, validator |-> "identity",
               reviver |-> "none"]
  /\ BothDone
  /\ calls["parseFetch"].outcome.kind = "throw"

\* the entry point the decorated call attaches, called on the response
Direct == calls[EntryOf(decor.by)]

\* what awaiting fetchFn(input, init) and then calling the entry point on
\* the resulting response yields
Composed ==
  IF fetchFn.settle = "response" THEN Direct.outcome
  ELSE Throw(FetchError(fetchFn))

\* C13: decorated(input, init).parse(options) invokes fetchFn exactly once
\* with exactly (input, init) and yields the same outcome as awaiting
\* fetchFn(input, init) and then calling the entry point on the resulting
\* response, for withParse with parseFetch and withParseSafe with
\* parseFetchSafe.
C13_DecoratorComposes ==
  \A k \in 1..MaxChains :
    (/\ chains[k].call.pc = "done"
     /\ ~chains[k].unusable
     /\ fetchFn.settle = "response" => Direct.pc = "done") =>
      /\ fetchFn.calls = << [input |-> decor.input, init |-> decor.init] >>
      /\ chains[k].call.outcome = Composed

\* a chained parse of the safe decorator, called with an init, has ended in
\* the Result of the validator, and so has the direct call
C13_Witness ==
  /\ decor.by = "withParseSafe"
  /\ decor.init /= Undefined
  /\ fetchFn.settle = "response"
  /\ options.validator = "safeFail"
  /\ chains[1].on = "pending"
  /\ chains[1].call.outcome = Return(Failure(<< Str("bad") >>))
  /\ Direct.outcome = chains[1].call.outcome

\* C14: the decorated function starts the network call when it is invoked,
\* before any .parse() call; .parse() performs no network call: however
\* many times it is called, on the pending value or on the enhanced
\* response, fetchFn has been invoked exactly once per decorated call.
C14_EagerSingleFetch ==
  [][/\ fetchFn' /= fetchFn =>
          /\ decor.pc = "idle"
          /\ \A k \in 1..MaxChains : chains[k].on = "none"
     /\ decor'.pc /= "idle" => Len(fetchFn'.calls) = 1]_vars

\* two parse calls, one on the pending value and one on the enhanced
\* response, have ended after a single call of fetchFn
C14_Witness ==
  /\ chains[1].on = "pending" /\ chains[1].call.pc = "done"
  /\ chains[MaxChains].on = "enhanced" /\ chains[MaxChains].call.pc = "done"
  /\ Len(fetchFn.calls) = 1

\* C15: for the safe decorator, when the network primitive raises an error
\* with message m, the pending value and a chained .parse() reject with
\* the failure Result {success: false, errors: [{kind: 'network', message:
\* 'parseFetch failed: ' + m}]} rather than with the original error.
C15_SafeDecoratorNetworkFailure ==
  (decor.by = "withParseSafe" /\ fetchFn.settle = "error"
     /\ decor.pc = "settled") =>
    LET failure ==
          Failure(<< Obj([kind |-> Str("network"),
                          message |-> Str("parseFetch failed: Network error")]) >>)
    IN /\ decor.pending = Throw(failure)
       /\ \A k \in 1..MaxChains :
            chains[k].call.pc = "done" => chains[k].call.outcome = Throw(failure)

C17_ThrowingDecoratorRejects ==
  (decor.by = "withParse" /\ fetchFn.settle /= "response") =>
    /\ decor.pc = "settled" => decor.pending = Throw(FetchError(fetchFn))
    /\ \A k \in 1..MaxChains :
         /\ chains[k].io = NoIo
         /\ chains[k].call.pc \in {"idle", "done"}
         /\ chains[k].call.strategy = ""
         /\ chains[k].call.parsedResult = Undefined
         /\ chains[k].call.pc = "done" =>
              chains[k].call.outcome = Throw(FetchError(fetchFn))

\* both chained parse calls of withParse have rejected with the value
\* fetchFn raised, which is not an Error
C17_Witness ==
  /\ decor.by = "withParse"
  /\ fetchFn.settle = "nonError"
  /\ \A k \in 1..MaxChains : chains[k].call.outcome = Throw(Str("offline"))

\* C18: the enhanced value a decorator resolves to exposes every field and
\* operation of the original response with the same value (ok, status,
\* statusText, headers, body readers) and in addition the parse attached
\* by the decorator, bound to that response.
C18_EnhancedKeepsResponse ==
  decor.pending.kind = "return" =>
    LET enhanced == decor.pending.value
    IN /\ \A f \in ResponseFields :
            /\ f \in DOMAIN enhanced
            /\ enhanced[f] = ResponseProps(response)[f]
       /\ "parse" \in DOMAIN enhanced
       /\ enhanced["parse"] = Fn(EntryOf(decor.by), "response")

\* the legacy call
Legacy == calls["parseFetchResponse"]

\* C19: for the legacy entry point parseFetchResponse, every failure caused
\* by a non-ok status, a missing body or a body-read exception is raised as
\* an error whose message is 'parseFetchResponse failed: ' followed by the
\* inner message ('Unknown error' as detail when the raised value is not an
\* Error); only validator errors are re-thrown as they are.
C19_LegacyWrapsFailures ==
  Legacy.pc = "done" =>
    LET prefix == "parseFetchResponse failed: "
        raised == validate(options.validator, BodyValue(response, ModeOf(Legacy.strategy)))
    IN /\ ~response.ok =>
            Legacy.outcome =
              Throw(Error(prefix \o "HTTP " \o ToString(response.status)
                            \o ": " \o response.statusText))
       /\ (response.ok /\ ~response.hasBody) =>
            Legacy.outcome = Throw(Error(prefix \o "Response has no body"))
       /\ (response.ok /\ response.hasBody /\ response.fault /= "none") =>
            Legacy.outcome =
              Throw(Error(prefix \o FailedTo(Legacy.strategy) \o ": "
                            \o (IF response.fault = "error" THEN "Invalid body"
                                ELSE "Unknown error")))
       /\ (DecodeSucceeds /\ options.validator \in {"throws", "throwsValidation"}) =>
            Legacy.outcome = raised

\* C21: the validator is invoked only after a successful decode: where the
\* status check, the body check or the decode fails, validate is never
\* called; when the decode succeeds and a validator is supplied, validate
\* is called exactly once, with the decoded value as its argument.
C21_ValidateAfterDecode ==
  \A c \in Entries :
    /\ (~DecodeSucceeds \/ calls[c].pc /= "done") =>
         io[c].validate = 0 /\ io[c].validatedWith = << >>
    /\ (DecodeSucceeds /\ calls[c].pc = "done" /\ options.validator /= "none") =>
         io[c].validate = 1 /\ io[c].validatedWith = << Decoded(c) >>
    /\ options.validator = "none" => io[c].validate = 0

\* both entry points have called a validator that rejects, once, with the
\* decoded body
C21_Witness ==
  /\ options.validator = "safeFail"
  /\ BothDone
  /\ \A c \in Entries :
       io[c].validatedWith =
         << Obj([message |-> Str("Hello World"), id |-> Num(response.body)]) >>

\* in this step the validator is invoked by the run `call` with counts
\* `ops`: the body read had completed before, and the outcome, not
\* delivered before, is delivered with the validator's return
ValidatesInOrder(call, ops, callAfter, opsAfter) ==
  opsAfter.validate > ops.validate =>
    /\ call.read.kind = "return"
    /\ call.outcome = Pending
    /\ callAfter.outcome /= Pending

\* C22: within one parse call the body read completes before the validator
\* is invoked, and the validator returns before the Result is constructed
\* and delivered; on the decorator path the network call completes before
\* any parse step (status check, body read, validation) begins.
C22_CausalOrder ==
  [][/\ \A c \in Entries :
          ValidatesInOrder(calls[c], io[c], calls'[c], io'[c])
     /\ \A k \in 1..MaxChains :
          /\ ValidatesInOrder(chains[k].call, chains[k].io,
                              chains'[k].call, chains'[k].io)
          /\ chains'[k].call /= chains[k].call =>
               /\ decor.pc = "settled"
               /\ Len(fetchFn.calls) = 1
     /\ \A k \in 1..MaxChains :
          (chains'[k].call.pc = "done" /\ chains'[k].call.read.kind = "return"
             /\ options.validator /= "none") =>
            chains'[k].io.validate = 1]_vars

\* a parse chained on the pending value and the direct call have both
\* delivered the Result of a validator called once
C22_Witness ==
  /\ fetchFn.settle = "response"
  /\ options.validator = "safeFail"
  /\ chains[1].on = "pending"
  /\ chains[1].call.pc = "done"
  /\ chains[1].io.validate = 1
  /\ Direct.pc = "done"
  /\ io[EntryOf(decor.by)].validate = 1

\* the status check, the body check, the decode or the validation of the
\* input fails
SomeStepFails == ~DecodeSucceeds \/ ValidatorRejects

\* a raise, or a returned failure Result
FailureOutcome(outcome) ==
  \/ outcome.kind = "throw"
  \/ outcome.kind = "return" /\ IsFailureResult(outcome.value)

\* C23: a failure is terminal for its call: once the status check, body
\* check, decode or validation has failed, the call ends in a failure
\* outcome (failure Result or raise) and never in a success; no step is
\* retried, so each call invokes at most one body-read operation, at most
\* once.
C23_FailureTerminal ==
  [][\A c \in Entries :
       /\ (calls'[c].pc = "done" /\ SomeStepFails) =>
            /\ FailureOutcome(calls'[c].outcome)
            /\ c = "parseFetch" => calls'[c].outcome.kind = "throw"
       /\ io'[c].json + io'[c].text + io'[c].arrayBuffer <= 1
       /\ calls[c].pc = "done" => (calls'[c] = calls[c] /\ io'[c] = io[c])
       /\ calls[c].pc = "parsed" => calls'[c].parsedResult = calls[c].parsedResult]_vars

\* a decode that failed after its single json() read, ended in a failure
\* Result and in a raise
C23_Witness ==
  /\ response.fault = "error"
  /\ BothDone
  /\ \A c \in Entries : io[c].json = 1
  /\ IsFailureResult(calls["parseFetchSafe"].outcome.value)
  /\ calls["parseFetch"].outcome.kind = "throw"

\* call c has the result of parse in hand
Parsed(c) == calls[c].pc \in {"parsed", "done"}

\* what the body read of call c resolved to, revived as the claim has it
\* for the revivers of the model that do not raise
RevivedBody ==
  CASE options.reviver = "none" ->
         Obj([message |-> Str("Hello World"), id |-> Num(response.body)])
    [] options.reviver = "number" ->
         Obj([message |-> Str("Hello World"), id |-> Num(response.body + 1)])
    [] options.reviver = "drop" -> Obj([id |-> Num(response.body)])

\* C24: when options.reviver is supplied and the JSON strategy is selected,
\* the body is read once via json() and the returned value is the decoded
\* value serialized to text and re-deserialized with the reviver applied to
\* every key/value; without a reviver the decoded value is returned as it
\* is; strategies other than JSON ignore the reviver.
C24_Reviver ==
  \A c \in Entries :
    (Parsed(c) /\ DecodeSucceeds) =>
      /\ ReadsOf(c) = OnlyRead(ModeOf(calls[c].strategy))
      /\ (calls[c].strategy = "json" /\ options.reviver /= "throws") =>
           /\ calls[c].parsedResult = Success(RevivedBody)
           /\ (calls[c].pc = "done" /\ options.validator = "none") =>
                calls[c].outcome =
                  Return(IF c = "parseFetch" THEN RevivedBody
                         ELSE Success(RevivedBody))
      /\ calls[c].strategy /= "json" =>
           calls[c].parsedResult = Success(Decoded(c))

\* both entry points have returned a JSON body whose number the reviver
\* has replaced
C24_Witness ==
  /\ options.reviver = "number"
  /\ options.validator = "none"
  /\ BothDone
  /\ calls["parseFetch"].strategy = "json"
  /\ calls["parseFetch"].outcome =
       Return(Obj([message |-> Str("Hello World"), id |-> Num(response.body + 1)]))
  /\ io["parseFetch"].json = 1

\* C30: when the JSON strategy is selected and the reviver raises with
\* message m during the second pass, the failure is handled like a decode
\* failure: the safe entry point returns a failure Result with the single
\* message 'parseFetch failed: Failed to parse JSON: ' + m, the throwing
\* entry point raises with that message, and the validator is not invoked.
C30_ReviverRaises ==
  \A c \in Entries :
    (DecodeSucceeds /\ options.reviver = "throws" /\ calls[c].strategy = "json") =>
      /\ io[c].validate = 0
      /\ calls[c].pc = "done" =>
           LET m == "parseFetch failed: Failed to parse JSON: Bad reviver"
           IN IF c = "parseFetchSafe"
              THEN calls[c].outcome = Return(Failure(<< Str(m) >>))
              ELSE calls[c].outcome = Throw(Error(m))

\* both entry points have ended on a raising reviver, with a validator in
\* the options that was never called
C30_Witness ==
  /\ options.reviver = "throws"
  /\ options.validator = "identity"
  /\ BothDone
  /\ calls["parseFetch"].outcome.kind = "throw"
  /\ calls["parseFetch"].read.kind = "return"
  /\ io["parseFetchSafe"].json = 1

\* the result of parse on response r with options o, run on its own from
\* start to end
AloneParse(r, o) ==
  LET failure == checkResponse(r)
      strategy == getStrategy(effectiveContentType(r, o))
      read == ReadOutcome(r, strategyRead(strategy))
  IN IF failure /= Undefined THEN failure
     ELSE parseSettled(strategyParse(strategy, strategyRevive(strategy, o, read)))

\* what the entry point delivers when its call runs alone
Alone(entry, r, o) ==
  IF entry = "parseFetch" THEN parseFetch(AloneParse(r, o), o).outcome
  ELSE parseFetchSafe(AloneParse(r, o), o).outcome

\* C25: parse invocations are independent: for two calls on two distinct
\* responses, run one after the other or interleaved at their suspension
\* points in any order, each call produces exactly one Result, the same as
\* if it ran alone; two decodes of independent responses with identical
\* bodies yield equal results.
C25_Independent ==
  [][\A i \in Pair :
       /\ pair'[i].call.pc = "done" =>
            pair'[i].call.outcome =
              Alone(pair[i].entry, pair[i].response, pair[i].options)
       /\ pair[i].call.pc = "done" => pair'[i] = pair[i]
       /\ (pair'[i].call.pc = "done" /\ pair'[Other(i)].call.pc = "done"
             /\ pair[i].entry = pair[Other(i)].entry
             /\ pair[i].response = pair[Other(i)].response
             /\ pair[i].options = pair[Other(i)].options) =>
            pair'[i].call.outcome = pair'[Other(i)].call.outcome]_vars

\* two interleaved calls of parseFetchSafe on responses with different
\* bodies have each ended with the body of their own response
C25_Witness ==
  /\ \A i \in Pair : pair[i].entry = "parseFetchSafe" /\ pair[i].call.pc = "done"
  /\ pair["first"].response.body /= pair["second"].response.body
  /\ \A i \in Pair :
       pair[i].call.outcome =
         Return(Success(Obj([message |-> Str("Hello World"),
                             id |-> Num(pair[i].response.body)])))

\* v is of exactly one of the two variants of a Result
ExactlyOneVariant(v) ==
  /\ isParseResult(v)
  /\ IF v.props.success.b
     THEN "data" \in DOMAIN v.props /\ "errors" \notin DOMAIN v.props
     ELSE /\ "errors" \in DOMAIN v.props /\ "data" \notin DOMAIN v.props
          /\ v.props.errors.t = "array"

\* C26: every Result returned by the safe entry point is exactly one of the
\* two variants: success is true and it carries data and no errors, or
\* success is false and it carries an errors list and no data; no returned
\* Result is both or neither.
C26_ResultVariants ==
  (calls["parseFetchSafe"].pc = "done"
     /\ calls["parseFetchSafe"].outcome.kind = "return") =>
    ExactlyOneVariant(calls["parseFetchSafe"].outcome.value)

\* C27: the precondition checks run in a fixed order: when a response is
\* both non-ok and has no body, the only error reported is the HTTP status
\* error ('ParseFetch Error:HTTP <status>: <statusText>'), never the
\* 'Response has no body' error, and the errors list has exactly one entry.
C27_StatusBeforeBody ==
  \A c \in Entries :
    (~response.ok /\ ~response.hasBody /\ calls[c].pc = "done") =>
      LET m == "ParseFetch Error:HTTP " \o ToString(response.status) \o ": "
                 \o response.statusText
      IN /\ calls[c].parsedResult = Failure(<< Str(m) >>)
         /\ Len(calls[c].parsedResult.props.errors.items) = 1
         /\ IF c = "parseFetchSafe"
            THEN calls[c].outcome = Return(Failure(<< Str(m) >>))
            ELSE calls[c].outcome = Throw(Error(m))

\* both entry points have ended on a 500 response without a body
C27_Witness ==
  /\ response.status = 500 /\ ~response.hasBody
  /\ BothDone
  /\ calls["parseFetch"].outcome =
       Throw(Error("ParseFetch Error:HTTP 500: Internal Server Error"))

\* text begins with prefix
StartsWith(text, prefix) ==
  Len(text) >= Len(prefix) /\ SubSeq(text, 1, Len(prefix)) = prefix

\* the chained parse k has ended in success
ChainSucceeded(k) ==
  /\ chains[k].call.pc = "done"
  /\ chains[k].call.outcome.kind = "return"
  /\ decor.by = "withParseSafe" => IsSuccessResult(chains[k].call.outcome.value)

\* the chained parse k has ended in a parse failure: the failure Result,
\* or the raise, with the message 'parseFetch failed: Failed to ...'
ChainParseFailure(k) ==
  LET outcome == chains[k].call.outcome
  IN IF decor.by = "withParseSafe"
     THEN /\ outcome.kind = "return" /\ IsFailureResult(outcome.value)
          /\ Len(outcome.value.props.errors.items) = 1
          /\ StartsWith(outcome.value.props.errors.items[1].s,
                        "parseFetch failed: Failed to ")
     ELSE /\ outcome.kind = "throw" /\ outcome.value.t = "error"
          /\ StartsWith(outcome.value.message, "parseFetch failed: Failed to ")

\* C28: given a response whose body can be read at most once, if parse is
\* called twice on the same (enhanced) response, one after the other or
\* concurrently, at most one of the two calls ends in success; the other
\* ends in a parse failure ('parseFetch failed: Failed to ...'), and
\* neither call returns data from a body that was already consumed.
C28_BodyReadOnce ==
  fetchFn.platform =>
    \A j, k \in 1..MaxChains :
      j /= k =>
        /\ ~(ChainSucceeded(j) /\ ChainSucceeded(k))
        /\ (ChainSucceeded(j) /\ chains[k].call.pc = "done") =>
             ChainParseFailure(k)
        /\ (chains[k].unusable /\ chains[k].call.pc = "done") =>
             /\ ChainParseFailure(k)
             /\ chains[k].call.parsedResult.props.success = Bool(FALSE)
             /\ chains[k].io.validate = 0

\* of two parse calls on one response of the platform, one made on the
\* pending value and one on the enhanced response, one has returned the
\* body and the other has failed on the body already read
C28_Witness ==
  /\ fetchFn.platform
  /\ decor.by = "withParseSafe"
  /\ chains[1].on = "pending"
  /\ chains[2].on = "enhanced"
  /\ \E j, k \in 1..2 :
       /\ ChainSucceeded(j)
       /\ chains[k].call.outcome =
            Return(Failure(<< Str("parseFetch failed: Failed to parse JSON: Body is unusable") >>))

\* C29: the pending value returned by a decorated call settles exactly
\* once and mirrors the network call only: it resolves with an enhanced
\* response whenever fetchFn resolves, a non-ok response included, and it
\* rejects only when fetchFn rejects; if fetchFn eventually settles, the
\* pending value eventually settles.
C29_PendingMirrorsFetch ==
  /\ [][/\ decor'.pending /= decor.pending =>
             /\ decor.pc = "fetched" /\ decor.pending = Pending
             /\ decor'.pc = "settled"
        /\ decor'.pc = "settled" =>
             /\ decor'.pending /= Pending
             /\ decor'.pending.kind = "return" <=> fetchFn.settle = "response"
             /\ decor'.pending.kind = "throw" <=> fetchFn.settle /= "response"
        /\ decor'.pc /= "settled" => decor'.pending = Pending]_vars
  /\ (decor.pc = "fetched") ~> (decor.pc = "settled")

\* the pending value has resolved with the enhanced response of a 404
C29_Witness ==
  /\ decor.pc = "settled"
  /\ ~response.ok
  /\ decor.pending.kind = "return"
  /\ decor.pending.value["parse"] = Fn(EntryOf(decor.by), "response")
  /\ chains[1].on = "none"

====
